---- MODULE Spec2Model ----
(***************************************************************************)
(* Booking lifecycle of the Shanal Cars platform: the Angular              *)
(* BookingService, the Cloud Functions that react to a booking's creation  *)
(* (notifyOwnerOnBooking, generatePaymentLink), the HTTP endpoints          *)
(* (confirmBooking, handleStripeWebhook) and emergencyDisablePayments.      *)
(*                                                                         *)
(* The bookings collection is a sequence of documents; the id Firestore    *)
(* generates for a new document is its index.  An optional field that is   *)
(* absent from a document holds NoTime / NoLink / NoUser.                   *)
(* Time is one monotonic clock, now, read by new Date() and by              *)
(* FieldValue.serverTimestamp(); the clock may advance between two reads.   *)
(***************************************************************************)
EXTENDS Integers, Sequences, FiniteSets, TLC

\* ---------------------------------------------------------------- bounds
MaxBookings == 1
MaxTime == 2
MaxProviderCalls == 2
MaxRequests == 1
MaxEmergencyCalls == 6
MaxPrivilegedCalls == 2
MaxDay == 3
MaxSubscriptions == 4
MaxAuthListeners == 4
MaxInFlight == 2

\* ------------------------------------------------------- program constants
maxCallsPerHour == 5
maxCallsPerDay == 20

NoTime == 0
NoLink == 0
NoUser == "none"
NoPayment == "none"

\* BookingStatus of src/app/models/booking.model.ts (payment-link model)
BookingStatus == {"pending", "pending_payment", "confirmed", "cancelled"}

\* Firebase Auth users; "ghost" is an id that auth.getUser() does not find,
\* "" is a field missing from a request, "anon" a call without credentials.
Users == {"owner", "staff", "super", "lead"}

AdminRole == {"super_admin", "admin", "manager", "viewer"}

\* Role-based permissions mapping used by setAdminRole
ROLE_PERMISSIONS ==
    [role \in AdminRole |->
        CASE role = "super_admin" ->
                 <<"view_bookings", "edit_bookings", "delete_bookings", "confirm_bookings",
                   "view_payments", "process_payments", "generate_payment_links",
                   "view_users", "manage_users", "assign_roles",
                   "view_analytics", "manage_system", "view_logs">>
          [] role = "admin" ->
                 <<"view_bookings", "edit_bookings", "confirm_bookings",
                   "view_payments", "process_payments", "generate_payment_links",
                   "view_users", "view_analytics">>
          [] role = "manager" ->
                 <<"view_bookings", "edit_bookings", "confirm_bookings",
                   "view_payments", "view_analytics">>
          [] OTHER ->
                 <<"view_bookings", "view_payments", "view_analytics">>]

\* The table inside getRolePermissions
rolePermissions ==
    [role \in {"super_admin", "admin", "manager", "viewer"} |->
        CASE role = "super_admin" ->
                 <<"view_bookings", "edit_bookings", "delete_bookings", "confirm_bookings",
                   "view_payments", "process_payments", "generate_payment_links",
                   "view_users", "manage_users", "assign_roles",
                   "view_analytics", "manage_system", "view_logs">>
          [] role = "admin" ->
                 <<"view_bookings", "edit_bookings", "confirm_bookings",
                   "view_payments", "process_payments", "generate_payment_links",
                   "view_users", "view_analytics">>
          [] role = "manager" ->
                 <<"view_bookings", "edit_bookings", "confirm_bookings",
                   "view_payments", "view_analytics">>
          [] OTHER ->
                 <<"view_bookings", "view_payments", "view_analytics">>]

\* getRolePermissions: rolePermissions[role] || []
getRolePermissions(role) ==
    IF role \in DOMAIN rolePermissions THEN rolePermissions[role] ELSE <<>>

\* The custom claims the users start with: owner is the business admin,
\* super the designated super admin on the emergency team, lead carries the
\* same claims as super without being on either list, staff has none.
InitialClaims(u) ==
    CASE u = "owner" -> [admin |-> TRUE,  role |-> "admin",       emergency_access |-> FALSE,
                         permissions |-> getRolePermissions("admin")]
      [] u = "super" -> [admin |-> TRUE,  role |-> "super_admin", emergency_access |-> TRUE,
                         permissions |-> getRolePermissions("super_admin")]
      [] u = "lead"  -> [admin |-> TRUE,  role |-> "super_admin", emergency_access |-> TRUE,
                         permissions |-> getRolePermissions("super_admin")]
      [] OTHER       -> [admin |-> FALSE, role |-> "none",        emergency_access |-> FALSE,
                         permissions |-> <<>>]

\* EMERGENCY_RESPONSE_TEAM and SUPER_ADMIN_UIDS of the environment
EMERGENCY_RESPONSE_TEAM == {"super", "owner"}
DESIGNATED_SUPER_ADMINS == {"super", "owner"}

\* The callable functions that write emergency_audit_logs
EmergencyFunctions ==
    {"emergencyDisablePayments", "emergencyEnablePayments", "emergencyDatabaseBackup"}

\* Stripe event types delivered to the webhook
EventTypes == {"checkout.session.completed", "payment_intent.succeeded", "charge.refunded"}

VARIABLES
    bookings,        \* the bookings collection: Seq of documents
    created,         \* per booking, the snapshot carried by its creation event
    now,             \* the clock
    stripeConfigured,\* stripe !== null (STRIPE_SECRET_KEY present)
    emailConfigured, \* sendgridApiKey && notificationEmailTo
    whatsappConfigured, \* whatsappWebhookUrl && whatsappRecipient
    gplPc,           \* per booking: position of a running generatePaymentLink
    providerCalls,   \* per booking: stripe.paymentLinks.create calls made
    linksIssued,     \* payment links the provider has issued so far
    notify,          \* the running notifyOwnerOnBooking invocation
    paymentsEnabled, \* system_config/payments.enabled
    auditLogs,       \* emergency_audit_logs: per function name, the entries of the
                     \* team member "super" (the only caller who gets that far)
    customClaims,    \* Firebase Auth custom claims of every user
    roleRequests,    \* the pending_role_assignments collection: Seq of documents
    approvals,       \* approveRoleAssignment calls between their read of the
                     \* request and their writes
    backups,         \* number of documents in emergency_backups
    selectedService, \* HomeComponent.selectedService: a service id, "none" for null
    bookingFormData, \* HomeComponent.bookingFormData: the date fields of the form
    signedIn,        \* Firebase Auth: a user is signed in in this browser
    mounted,         \* an AdminDashboardComponent instance is alive
    subscriptions,   \* its subscriptions array: Seq of [kind, closed]
    authListeners,   \* callbacks registered with auth.onAuthStateChanged and
                     \* not unregistered
    owed,            \* bookings whose creation event notifyOwnerOnBooking has not
                     \* yet acknowledged to the event system
    last             \* the operation that took the last step: the status it answered
                     \* (createBooking: the id it returned, 0 when addDoc rejected;
                     \* generatePaymentLink: the unit_amount it sent to the provider)
                     \* and the calls it made on the bookings collection

vars == <<bookings, created, now, stripeConfigured, emailConfigured,
          whatsappConfigured, gplPc, providerCalls, linksIssued,
          notify, paymentsEnabled, auditLogs, owed, customClaims,
          roleRequests, approvals, backups, selectedService, bookingFormData,
          signedIn, mounted, subscriptions, authListeners, last>>

\* userRecord.customClaims || {}
CustomClaims(u) == customClaims[u]

\* The state of the role and backup collections
roleVars == <<customClaims, roleRequests, approvals, backups>>

\* The state of the pages in the browser
dashboardVars == <<signedIn, mounted, subscriptions, authListeners>>

clientVars == <<selectedService, bookingFormData, dashboardVars>>

Ids == 1..Len(bookings)

IdleNotify == [b |-> 0, pc |-> "idle", i |-> 0, delivered |-> FALSE, log |-> <<>>]

\* err is the code of the HttpsError a callable function threw, "" for none.
\* event is the type of the event a webhook request carried, "" otherwise.
LastEvent(op, code, db, err, event) ==
    [op |-> op, code |-> code, db |-> db, err |-> err, event |-> event]

LastErr(op, code, db, err) == LastEvent(op, code, db, err, "")

Last(op, code, db) == LastErr(op, code, db, "")

\* updateDoc / ref.update: merge the given fields into document b
Update(b, fields) ==
    [bookings EXCEPT ![b] =
        [f \in DOMAIN bookings[b] |->
            IF f \in DOMAIN fields THEN fields[f] ELSE bookings[b][f]]]

\* ------------------------------------------------ the booking form
\* The strings a date field of the form holds, written as numbers: k in
\* 1..MaxDay is the yyyy-mm-dd string of the k-th day ("2024-03-0k"),
\* EmptyString is "" (or the field left undefined) and InvalidDateString a
\* string that names no date ("2024-13-01").
EmptyString == 0
InvalidDateString == -1
DateStrings == {EmptyString, InvalidDateString} \cup (1..MaxDay)

\* The value of an <input type="date">: "" or the string of a date.
DateInputValues == {EmptyString} \cup (1..MaxDay)

\* 1000 * 60 * 60 * 24
DayMs == 86400000

NaN == -1
IsNaN(x) == x = NaN

\* new Date(s).getTime(): a yyyy-mm-dd string is midnight UTC of its day,
\* any other string is an Invalid Date, whose time is NaN.
DateGetTime(s) == IF s >= 1 THEN s * DayMs ELSE NaN

\* a < b and a >= b on two Dates: the times are compared as numbers, and
\* every comparison with NaN is false.
DateLess(a, b) ==
    ~IsNaN(DateGetTime(a)) /\ ~IsNaN(DateGetTime(b)) /\ DateGetTime(a) < DateGetTime(b)

DateAtLeast(a, b) ==
    ~IsNaN(DateGetTime(a)) /\ ~IsNaN(DateGetTime(b)) /\ DateGetTime(a) >= DateGetTime(b)

\* A string in a condition: "" and undefined are falsy.
Truthy(s) == s # EmptyString

Floor(a, b) == a \div b

\* the services of the catalogue the model opens the form for
Services == {"car-rental", "sightseeing-tour"}

ServicePrice(service) == IF service = "car-rental" THEN 45 ELSE 65

\* Service.name, which openBookingModal copies into bookingFormData.serviceName
ServiceName(service) == IF service = "car-rental" THEN "Car Rental" ELSE "Sightseeing Tour"

\* bookingFormData as openBookingModal sets it: bookingDate "", the rental
\* dates not set.
EmptyForm ==
    [bookingDate |-> EmptyString, startDate |-> EmptyString, endDate |-> EmptyString]

isCarRental == selectedService = "car-rental"

\* (rentalDays without the inclusive + 1)
RentalDaysExclusive(startDate, endDate) ==
    IF ~Truthy(startDate) \/ ~Truthy(endDate) THEN 0
    ELSE IF IsNaN(DateGetTime(startDate)) \/ IsNaN(DateGetTime(endDate)) THEN 0
    ELSE IF Floor(DateGetTime(endDate) - DateGetTime(startDate), DayMs) > 0
         THEN Floor(DateGetTime(endDate) - DateGetTime(startDate), DayMs)
         ELSE 0

\* The body of the rentalDays getter on a pair of date strings.
RentalDays(startDate, endDate) ==
    IF ~Truthy(startDate) \/ ~Truthy(endDate) THEN 0
    ELSE IF IsNaN(DateGetTime(startDate)) \/ IsNaN(DateGetTime(endDate)) THEN 0
    ELSE IF Floor(DateGetTime(endDate) - DateGetTime(startDate), DayMs) + 1 > 0
         THEN Floor(DateGetTime(endDate) - DateGetTime(startDate), DayMs) + 1
         ELSE 0

rentalDays == RentalDays(bookingFormData.startDate, bookingFormData.endDate)

rentalTotal ==
    IF ~isCarRental THEN 0
    ELSE rentalDays * (IF selectedService = "none" THEN 0 ELSE ServicePrice(selectedService))

datesValid ==
    IF ~isCarRental THEN TRUE
    ELSE IF ~Truthy(bookingFormData.startDate) \/ ~Truthy(bookingFormData.endDate) THEN FALSE
    ELSE DateAtLeast(bookingFormData.endDate, bookingFormData.startDate)

\* The deployment before the first booking; the three sets hold the
\* configurations (environment variables present or not) a run may have.
InitWith(stripeEnv, emailEnv, whatsappEnv) ==
    /\ bookings = <<>>
    /\ created = <<>>
    /\ now = 1
    /\ stripeConfigured \in stripeEnv
    /\ emailConfigured \in emailEnv
    /\ whatsappConfigured \in whatsappEnv
    /\ gplPc = <<>>
    /\ providerCalls = <<>>
    /\ linksIssued = 0
    /\ notify = IdleNotify
    /\ paymentsEnabled = TRUE
    /\ auditLogs = [f \in EmergencyFunctions |-> 0]
    /\ customClaims = [u \in Users |-> InitialClaims(u)]
    /\ roleRequests = <<>>
    /\ approvals = <<>>
    /\ backups = 0
    /\ owed = {}
    /\ selectedService = "none"
    /\ bookingFormData = EmptyForm
    /\ signedIn = FALSE
    /\ mounted = FALSE
    /\ subscriptions = <<>>
    /\ authListeners = 0
    /\ last = Last("init", 0, 0)

Init == InitWith(BOOLEAN, BOOLEAN, BOOLEAN)

\* Time passes.
Tick ==
    /\ now < MaxTime
    /\ now' = now + 1
    /\ last' = Last("Tick", 0, 0)
    /\ UNCHANGED <<bookings, created, stripeConfigured, emailConfigured, clientVars,
                   whatsappConfigured, gplPc, providerCalls,
                   linksIssued, notify,
                   paymentsEnabled, auditLogs, owed, roleVars>>

\* What the Admin SDK reads back (snapshot.data()) for a value the client
\* wrote: a JavaScript Date is stored as a Firestore timestamp and comes back
\* as a Timestamp object, a string comes back as a string.
FirestoreStored(v) == IF v = "Date" THEN "Timestamp" ELSE v

\* The document createBooking builds: createdAt and updatedAt are two
\* separate new Date() readings, t1 first; bookingDate is new Date(form date)
\* (the form of a single-day service, which requires the date).
NoDate == 0

NewBooking(t1, t2) ==
    [customerName |-> "form", serviceName |-> "Sightseeing Tour",
     bookingDate |-> FirestoreStored("Date"),
     rentalStart |-> NoDate, rentalEnd |-> NoDate,
     status |-> "pending", createdAt |-> t1, updatedAt |-> t2,
     paidAt |-> NoTime, ownerNotifiedAt |-> NoTime, paymentLink |-> NoLink,
     paymentId |-> NoPayment, confirmedBy |-> NoUser, suspendedBy |-> NoUser]

\* BookingService.createBooking: addDoc resolves with the generated id, or
\* rejects (storeOk = FALSE) and the rejection is rethrown to the caller.
createBooking(storeOk, d) ==
    /\ Len(bookings) < MaxBookings
    /\ now + d <= MaxTime
    /\ now' = now + d
    /\ IF storeOk
       THEN /\ bookings' = Append(bookings, NewBooking(now, now + d))
            /\ created' = Append(created, NewBooking(now, now + d))
            /\ gplPc' = Append(gplPc, "idle")
            /\ providerCalls' = Append(providerCalls, 0)
            /\ owed' = owed \cup {Len(bookings) + 1}
            /\ last' = Last("createBooking", Len(bookings) + 1, 1)
       ELSE /\ UNCHANGED <<bookings, created, gplPc, providerCalls, owed>>
            /\ last' = Last("createBooking", 0, 1)
    /\ UNCHANGED <<stripeConfigured, emailConfigured, clientVars, whatsappConfigured,
                   linksIssued, notify, paymentsEnabled, auditLogs, roleVars>>

\* ------------------------------------------------ HomeComponent
\* The date fields the booking form shows for a service: the rental period
\* for car rental, the single booking date for every other service.
FormFields(service) ==
    IF service = "car-rental" THEN {"startDate", "endDate"} ELSE {"bookingDate"}

openBookingModal(service) ==
    /\ selectedService' = service
    /\ bookingFormData' = EmptyForm
    /\ last' = Last("openBookingModal", 0, 0)
    /\ UNCHANGED <<bookings, created, now, stripeConfigured, emailConfigured,
                   whatsappConfigured, gplPc, providerCalls, linksIssued, notify,
                   paymentsEnabled, auditLogs, owed, roleVars, dashboardVars>>

\* The customer fills a date field of the open form.
enterDate(field, value) ==
    /\ selectedService # "none"
    /\ field \in FormFields(selectedService)
    /\ bookingFormData' = [bookingFormData EXCEPT ![field] = value]
    /\ last' = Last("enterDate", 0, 0)
    /\ UNCHANGED <<bookings, created, now, stripeConfigured, emailConfigured,
                   whatsappConfigured, gplPc, providerCalls, linksIssued, notify,
                   paymentsEnabled, auditLogs, owed, roleVars, selectedService,
                   dashboardVars>>

\* (the checks of submitBooking without the comparison of the two dates)
SubmitBookingAlertUnordered ==
    IF isCarRental /\ ~(Truthy(bookingFormData.startDate) /\ Truthy(bookingFormData.endDate))
    THEN "Please select both start and end dates for car rental."
    ELSE IF ~isCarRental /\ ~Truthy(bookingFormData.bookingDate)
    THEN "Please select a booking date."
    ELSE ""

\* The checks of submitBooking: the alert it shows before it returns, ""
\* when it goes on to createBooking.
SubmitBookingAlert ==
    IF isCarRental /\ ~(Truthy(bookingFormData.startDate) /\ Truthy(bookingFormData.endDate))
    THEN "Please select both start and end dates for car rental."
    ELSE IF /\ isCarRental
            /\ Truthy(bookingFormData.startDate) /\ Truthy(bookingFormData.endDate)
            /\ DateLess(bookingFormData.endDate, bookingFormData.startDate)
    THEN "End date cannot be before start date."
    ELSE IF ~isCarRental /\ ~Truthy(bookingFormData.bookingDate)
    THEN "Please select a booking date."
    ELSE ""

\* (createBooking writing bookingDate whether or not the form holds one)
BookingDocumentAlways(bookingData, t1, t2) ==
    [NewBooking(t1, t2) EXCEPT
        !.serviceName = ServiceName(selectedService),
        !.bookingDate = FirestoreStored("Date"),
        !.rentalStart = IF Truthy(bookingData.startDate)
                        THEN DateGetTime(bookingData.startDate) ELSE NoDate,
        !.rentalEnd = IF Truthy(bookingData.endDate)
                      THEN DateGetTime(bookingData.endDate) ELSE NoDate]

\* The document BookingService.createBooking builds from the form data: a
\* date field is written only when its string is truthy, as new Date(string).
BookingDocument(bookingData, t1, t2) ==
    [NewBooking(t1, t2) EXCEPT
        !.serviceName = ServiceName(selectedService),
        !.bookingDate = IF Truthy(bookingData.bookingDate)
                        THEN FirestoreStored("Date") ELSE "undefined",
        !.rentalStart = IF Truthy(bookingData.startDate)
                        THEN DateGetTime(bookingData.startDate) ELSE NoDate,
        !.rentalEnd = IF Truthy(bookingData.endDate)
                      THEN DateGetTime(bookingData.endDate) ELSE NoDate]

\* submitBooking: return when no service is selected or a check fails;
\* otherwise createBooking(bookingFormData), then closeBookingModal on
\* success and the error alert when addDoc rejected.
submitBooking(storeOk, d) ==
    /\ IF selectedService = "none"
       THEN /\ last' = LastErr("submitBooking", 0, 0, "return")
            /\ UNCHANGED <<bookings, created, gplPc, providerCalls, owed, now,
                           selectedService>>
       ELSE IF SubmitBookingAlert # ""
       THEN /\ last' = LastErr("submitBooking", 0, 0, SubmitBookingAlert)
            /\ UNCHANGED <<bookings, created, gplPc, providerCalls, owed, now,
                           selectedService>>
       ELSE /\ Len(bookings) < MaxBookings
            /\ now + d <= MaxTime
            /\ now' = now + d
            /\ IF storeOk
               THEN /\ bookings' = Append(bookings, BookingDocument(bookingFormData, now, now + d))
                    /\ created' = Append(created, BookingDocument(bookingFormData, now, now + d))
                    /\ gplPc' = Append(gplPc, "idle")
                    /\ providerCalls' = Append(providerCalls, 0)
                    /\ owed' = owed \cup {Len(bookings) + 1}
                    /\ selectedService' = "none"
                    /\ last' = LastErr("submitBooking", Len(bookings) + 1, 1, "")
               ELSE /\ UNCHANGED <<bookings, created, gplPc, providerCalls, owed,
                                   selectedService>>
                    /\ last' = LastErr("submitBooking", 0, 1,
                                       "There was an error submitting your booking. Please try again.")
    /\ UNCHANGED <<stripeConfigured, emailConfigured, whatsappConfigured,
                   linksIssued, notify, paymentsEnabled, auditLogs, roleVars,
                   bookingFormData, dashboardVars>>

\* ------------------------------------------------ AdminDashboardComponent
\* Everything but the state of the dashboard page.
backendVars ==
    <<bookings, created, now, stripeConfigured, emailConfigured,
      whatsappConfigured, gplPc, providerCalls, linksIssued, notify,
      paymentsEnabled, auditLogs, owed, roleVars, selectedService,
      bookingFormData>>

Subscribed(kind) == [kind |-> kind, closed |-> FALSE]

\* Subscription.unsubscribe()
Unsubscribed(sub) == [sub EXCEPT !.closed = TRUE]

\* Live listeners on the bookings query: collectionData removes its
\* snapshot listener when its subscription is closed.
BookingsListeners ==
    {i \in 1..Len(subscriptions) :
        subscriptions[i].kind = "getBookings" /\ ~subscriptions[i].closed}

\* ngOnInit: two subscriptions, isAuthenticated() and getCurrentUser(), each
\* registering its own onAuthStateChanged callback.
ngOnInit ==
    /\ ~mounted
    /\ authListeners + 2 <= MaxAuthListeners
    /\ mounted' = TRUE
    /\ subscriptions' = <<Subscribed("isAuthenticated"), Subscribed("getCurrentUser")>>
    /\ authListeners' = authListeners + 2
    /\ last' = Last("ngOnInit", 0, 0)
    /\ UNCHANGED <<backendVars, signedIn>>

\* loadBookings: one more subscription to getBookings().
loadBookings == Append(subscriptions, Subscribed("getBookings"))

\* Firebase Auth calls the registered callbacks with the current user: the
\* first call after registration, a sign-in or a sign-out. The callbacks of
\* a live component run; when a sign-out makes the bookings query fail
\* (readDenied), its listeners end with an error.
onAuthStateChanged(user, readDenied) ==
    /\ (mounted /\ user) => Len(subscriptions) < MaxSubscriptions
    /\ signedIn' = user
    /\ subscriptions' =
          IF mounted /\ user THEN loadBookings
          ELSE IF ~user /\ readDenied
          THEN [i \in 1..Len(subscriptions) |->
                   IF subscriptions[i].kind = "getBookings"
                   THEN Unsubscribed(subscriptions[i]) ELSE subscriptions[i]]
          ELSE subscriptions
    /\ last' = Last("onAuthStateChanged", 0, 0)
    /\ UNCHANGED <<backendVars, mounted, authListeners>>

\* ngOnDestroy: every subscription of the array is unsubscribed. The
\* function getCurrentUser() gives to new Observable returns nothing, so the
\* observable has no teardown and the two onAuthStateChanged callbacks stay
\* registered.
ngOnDestroy ==
    /\ mounted
    /\ mounted' = FALSE
    /\ subscriptions' = [i \in 1..Len(subscriptions) |-> Unsubscribed(subscriptions[i])]
    /\ last' = Last("ngOnDestroy", 0, 0)
    /\ UNCHANGED <<backendVars, signedIn, authListeners>>

\* scripts/test-payment-flow.js, testErrorHandling: addDoc of the test
\* booking with serviceName "Invalid Service" (its bookingDate is a Date).
testErrorHandling ==
    /\ Len(bookings) < MaxBookings
    /\ bookings' = Append(bookings, [NewBooking(now, now) EXCEPT
                                        !.customerName = "Test Customer",
                                        !.serviceName = "Invalid Service"])
    /\ created' = Append(created, [NewBooking(now, now) EXCEPT
                                      !.customerName = "Test Customer",
                                      !.serviceName = "Invalid Service"])
    /\ gplPc' = Append(gplPc, "idle")
    /\ providerCalls' = Append(providerCalls, 0)
    /\ owed' = owed \cup {Len(bookings) + 1}
    /\ last' = Last("testErrorHandling", Len(bookings) + 1, 1)
    /\ UNCHANGED <<now, stripeConfigured, emailConfigured, whatsappConfigured,
                   linksIssued, notify, paymentsEnabled, auditLogs, roleVars,
                   clientVars>>

\* The fields BookingService.updateBookingStatus writes: updatedAt is read
\* at t1, paidAt (confirmed only) at t2; any other status deletes paidAt.
StatusUpdateFields(s, t1, t2) ==
    [status |-> s, updatedAt |-> t1,
     paidAt |-> IF s = "confirmed" THEN t2 ELSE NoTime]

\* BookingService.updateBookingStatus; updateDoc rejects for a missing document.
updateBookingStatus(b, s, d) ==
    /\ now + d <= MaxTime
    /\ now' = now + d
    /\ IF b \in Ids
       THEN /\ bookings' = Update(b, StatusUpdateFields(s, now, now + d))
            /\ last' = Last("updateBookingStatus", 0, 1)
       ELSE /\ UNCHANGED bookings
            /\ last' = Last("updateBookingStatus", -1, 1)
    /\ UNCHANGED <<created, stripeConfigured, emailConfigured, clientVars,
                   whatsappConfigured, gplPc, providerCalls,
                   linksIssued, notify,
                   paymentsEnabled, auditLogs, owed, roleVars>>

\* The payment-link variant of the service: paidAt is written for confirmed
\* and left alone (not deleted) for every other status.
LinkVariantUpdateFields(s, t1, t2) ==
    IF s = "confirmed"
    THEN [status |-> s, updatedAt |-> t1, paidAt |-> t2]
    ELSE [status |-> s, updatedAt |-> t1]

updateBookingStatusLinkVariant(b, s, d) ==
    /\ now + d <= MaxTime
    /\ now' = now + d
    /\ IF b \in Ids
       THEN /\ bookings' = Update(b, LinkVariantUpdateFields(s, now, now + d))
            /\ last' = Last("updateBookingStatusLinkVariant", 0, 1)
       ELSE /\ UNCHANGED bookings
            /\ last' = Last("updateBookingStatusLinkVariant", -1, 1)
    /\ UNCHANGED <<created, stripeConfigured, emailConfigured, clientVars,
                   whatsappConfigured, gplPc, providerCalls,
                   linksIssued, notify,
                   paymentsEnabled, auditLogs, owed, roleVars>>

\* (confirmBooking without the customClaims.admin check)
ConfirmBookingStatusUnchecked(method, bookingId, adminId) ==
    IF method # "POST" THEN 405
    ELSE IF bookingId = 0 \/ adminId = "" THEN 400
    ELSE IF adminId \notin Users THEN 500
    ELSE IF bookingId \notin Ids THEN 500
    ELSE 200

\* HTTP status of the confirmBooking endpoint for a request: auth.getUser
\* throws for an unknown uid and update() throws for a missing document,
\* and the catch block answers 500.
ConfirmBookingStatus(method, bookingId, adminId) ==
    IF method # "POST" THEN 405
    ELSE IF bookingId = 0 \/ adminId = "" THEN 400
    ELSE IF adminId \notin Users THEN 500
    ELSE IF ~CustomClaims(adminId).admin THEN 403
    ELSE IF bookingId \notin Ids THEN 500
    ELSE 200

\* The request gets as far as the update() call.
ConfirmBookingReachesUpdate(method, bookingId, adminId) ==
    /\ method = "POST"
    /\ bookingId # 0
    /\ adminId \in Users
    /\ CustomClaims(adminId).admin

\* confirmBooking (onRequest): the update writes status, confirmedBy,
\* confirmedAt and updatedAt, and nothing else.
confirmBooking(method, bookingId, adminId) ==
    /\ last' = Last("confirmBooking",
                    ConfirmBookingStatus(method, bookingId, adminId),
                    IF ConfirmBookingReachesUpdate(method, bookingId, adminId)
                    THEN 1 ELSE 0)
    /\ IF ConfirmBookingStatus(method, bookingId, adminId) = 200
       THEN bookings' = Update(bookingId,
                [status |-> "confirmed", confirmedBy |-> adminId,
                 updatedAt |-> now])
       ELSE UNCHANGED bookings
    /\ UNCHANGED <<created, now, stripeConfigured, emailConfigured, clientVars,
                   whatsappConfigured, gplPc, providerCalls,
                   linksIssued, notify,
                   paymentsEnabled, auditLogs, owed, roleVars>>

\* ------------------------------------------------ generatePaymentLink
\* The trigger's guard, evaluated on the snapshot its event carries.
GplSkips(snapshot) ==
    snapshot.status # "pending" \/ snapshot.paymentLink # NoLink

\* SERVICE_PRICES of the v2 functions, and the lookup of generatePaymentLink:
\* SERVICE_PRICES[serviceName] || 50, in cents.
SERVICE_PRICES ==
    [n \in {"Car Rental", "Sightseeing Tour", "Catamaran Trip",
            "Ile Aux Cerfs Island Trip", "Airport Transfers"} |->
        CASE n = "Car Rental" -> 50
          [] n = "Sightseeing Tour" -> 80
          [] n = "Catamaran Trip" -> 120
          [] n = "Ile Aux Cerfs Island Trip" -> 100
          [] OTHER -> 30]

PriceInCents(serviceName) ==
    (IF serviceName \in DOMAIN SERVICE_PRICES THEN SERVICE_PRICES[serviceName] ELSE 50) * 100

\* Methods of the runtime value of a field: a Date has toDateString, a
\* Firestore Timestamp has toDate (and no toDateString), a string has neither.
HasMethod(value, method) ==
    \/ value = "Date" /\ method \in {"toDateString", "toLocaleDateString"}
    \/ value = "Timestamp" /\ method = "toDate"

\* Building the product description throws a TypeError before
\* stripe.paymentLinks.create is called: the v2 function calls
\* bookingDate.toDateString(), the v1 function bookingDate.toDate().
DescriptionThrows(snapshot) == ~HasMethod(snapshot.bookingDate, "toDateString")

DescriptionThrowsV1(snapshot) == ~HasMethod(snapshot.bookingDate, "toDate")

\* The catch block of generatePaymentLink.
GplCatch(b) == Update(b, [status |-> "error", updatedAt |-> now])

\* generatePaymentLink (v2), from the trigger's start to its first await:
\* skip, or the manual fallback write, or the catch block after the
\* description threw, or the stripe.paymentLinks.create call.
generatePaymentLinkStart(b) ==
    /\ b \in Ids
    /\ gplPc[b] = "idle"
    /\ \/ GplSkips(created[b]) \/ ~stripeConfigured
       \/ DescriptionThrows(created[b])
       \/ providerCalls[b] < MaxProviderCalls
    /\ IF GplSkips(created[b])
       THEN /\ last' = Last("generatePaymentLink", 0, 0)
            /\ UNCHANGED <<bookings, gplPc, providerCalls>>
       ELSE IF ~stripeConfigured
       THEN /\ bookings' = Update(b, [status |-> "pending_payment", updatedAt |-> now])
            /\ last' = Last("generatePaymentLink", 0, 1)
            /\ UNCHANGED <<gplPc, providerCalls>>
       ELSE IF DescriptionThrows(created[b])
       THEN /\ bookings' = GplCatch(b)
            /\ last' = Last("generatePaymentLink", 0, 1)
            /\ UNCHANGED <<gplPc, providerCalls>>
       ELSE /\ providerCalls' = [providerCalls EXCEPT ![b] = @ + 1]
            /\ gplPc' = [gplPc EXCEPT ![b] = "awaiting"]
            /\ last' = Last("generatePaymentLink", PriceInCents(created[b].serviceName), 0)
            /\ UNCHANGED bookings
    /\ UNCHANGED <<created, now, stripeConfigured, emailConfigured, clientVars,
                   whatsappConfigured, linksIssued, notify, paymentsEnabled, auditLogs, owed, roleVars>>

\* generatePaymentLink of the v1 functions: the module constructs its
\* Stripe client from the configured key at load, there is no fallback
\* branch, and the same guard and catch surround the provider call.
generatePaymentLinkV1Start(b) ==
    /\ b \in Ids
    /\ stripeConfigured
    /\ gplPc[b] = "idle"
    /\ \/ GplSkips(created[b]) \/ DescriptionThrowsV1(created[b])
       \/ providerCalls[b] < MaxProviderCalls
    /\ IF GplSkips(created[b])
       THEN /\ last' = Last("generatePaymentLinkV1", 0, 0)
            /\ UNCHANGED <<bookings, gplPc, providerCalls>>
       ELSE IF DescriptionThrowsV1(created[b])
       THEN /\ bookings' = GplCatch(b)
            /\ last' = Last("generatePaymentLinkV1", 0, 1)
            /\ UNCHANGED <<gplPc, providerCalls>>
       ELSE /\ providerCalls' = [providerCalls EXCEPT ![b] = @ + 1]
            /\ gplPc' = [gplPc EXCEPT ![b] = "awaiting"]
            /\ last' = Last("generatePaymentLinkV1", PriceInCents(created[b].serviceName), 0)
            /\ UNCHANGED bookings
    /\ UNCHANGED <<created, now, stripeConfigured, emailConfigured, clientVars,
                   whatsappConfigured, linksIssued, notify, paymentsEnabled, auditLogs, owed, roleVars>>

\* generatePaymentLink (either version) after the provider call settles:
\* the link and pending_payment are written, or the catch block runs.
generatePaymentLinkFinish(b, ok) ==
    /\ b \in Ids
    /\ gplPc[b] = "awaiting"
    /\ gplPc' = [gplPc EXCEPT ![b] = "idle"]
    /\ IF ok
       THEN /\ linksIssued' = linksIssued + 1
            /\ bookings' = Update(b, [paymentLink |-> linksIssued + 1,
                                      status |-> "pending_payment",
                                      updatedAt |-> now])
            /\ last' = Last("generatePaymentLink", 0, 1)
       ELSE /\ bookings' = GplCatch(b)
            /\ last' = Last("generatePaymentLink", 0, 1)
            /\ UNCHANGED linksIssued
    /\ UNCHANGED <<created, now, stripeConfigured, emailConfigured, clientVars,
                   whatsappConfigured, providerCalls, notify, paymentsEnabled, auditLogs, owed, roleVars>>

\* ------------------------------------------------ handleStripeWebhook
\* HTTP status of the webhook: 503 without Stripe, 400 when constructEvent
\* rejects the signature, 200 for every event that passes.
WebhookStatus(configured, sigOk) ==
    IF ~configured THEN 503 ELSE IF ~sigOk THEN 400 ELSE 200

\* (the webhook without the catch around constructEvent)
WebhookDispatchesUnverified(configured, sigOk) == configured

\* The event reaches the switch only past both early returns.
WebhookDispatches(configured, sigOk) == configured /\ sigOk

\* (a switch whose default case confirms like payment_intent.succeeded)
HandledEventTypesWithDefault ==
    {"checkout.session.completed", "payment_intent.succeeded", "charge.refunded"}

\* Event types the switch handles.
HandledEventTypes == {"checkout.session.completed", "payment_intent.succeeded"}

\* paymentId written by the handler of each event type
PaymentIdOf(type) ==
    IF type = "checkout.session.completed" THEN "session.payment_intent"
    ELSE "paymentIntent.id"

\* handleCheckoutSessionCompleted / handlePaymentIntentSucceeded: no
\* bookingId in the metadata returns early; update() of a missing document
\* throws and is caught.
ConfirmedByPayment(type, meta) ==
    IF meta \in Ids
    THEN Update(meta, [status |-> "confirmed", paymentId |-> PaymentIdOf(type),
                       updatedAt |-> now])
    ELSE bookings

handleStripeWebhook(sigOk, type, meta) ==
    /\ last' = LastEvent("handleStripeWebhook", WebhookStatus(stripeConfigured, sigOk),
                         IF /\ WebhookDispatches(stripeConfigured, sigOk)
                            /\ type \in HandledEventTypes
                            /\ meta # 0
                         THEN 1 ELSE 0,
                         "", type)
    /\ IF WebhookDispatches(stripeConfigured, sigOk) /\ type \in HandledEventTypes
       THEN bookings' = ConfirmedByPayment(type, meta)
       ELSE UNCHANGED bookings
    /\ UNCHANGED <<created, now, stripeConfigured, emailConfigured, clientVars,
                   whatsappConfigured, gplPc, providerCalls,
                   linksIssued, notify, paymentsEnabled, auditLogs, owed, roleVars>>

\* ------------------------------------------------ notifyOwnerOnBooking
\* The attempts array of sendOwnerNotification, in push order.
Attempts == <<"email", "whatsapp">>

\* (trySendEmail without its credentials guard)
trySendEmailUnguarded(ok) ==
    IF ok THEN "sent" ELSE "failed"

\* trySendEmail: false without credentials (no request is made), true when
\* SendGrid answers ok, a thrown Error otherwise.
trySendEmail(ok) ==
    IF ~emailConfigured THEN "unconfigured" ELSE IF ok THEN "sent" ELSE "failed"

\* trySendWhatsApp: the same shape for the WhatsApp webhook.
trySendWhatsApp(ok) ==
    IF ~whatsappConfigured THEN "unconfigured" ELSE IF ok THEN "sent" ELSE "failed"

RunAttempt(ch, ok) ==
    IF ch = "email" THEN trySendEmail(ok) ELSE trySendWhatsApp(ok)

\* (the loop without its break)
LoopNeverBreaks(delivered) == FALSE

\* The loop leaves at the first delivered attempt.
LoopBreaks(delivered) == delivered

\* (the handler with the stamp moved out of the try block)
NotifyMarksAlways(delivered) == TRUE

\* The handler marks the booking only when sendOwnerNotification returned.
NotifyMarks(delivered) == delivered

\* The handler's try/catch swallows the Error sendOwnerNotification throws.
NotifyHandlerThrows(sendThrew) == FALSE

\* onDocumentCreated is given no options: the trigger has no retry policy,
\* and an invocation that ends, normally or not, settles its event.
NotifyRetry == FALSE

\* (the handler writing its event snapshot back with the stamp)
NotifyStampSnapshot(b) ==
    [bookings EXCEPT ![b] =
        [created[b] EXCEPT !.updatedAt = now, !.ownerNotifiedAt = now]]

\* event.data.ref.update({updatedAt, ownerNotifiedAt}): both fields take the
\* server timestamp, every other field of the document is left alone.
NotifyStamp(b) ==
    Update(b, [updatedAt |-> now, ownerNotifiedAt |-> now])

\* The creation event is delivered: the handler starts sendOwnerNotification.
notifyOwnerOnBookingStart(b) ==
    /\ b \in Ids
    /\ notify.pc = "idle"
    /\ notify' = [b |-> b, pc |-> "loop", i |-> 1, delivered |-> FALSE, log |-> <<>>]
    /\ last' = Last("notifyOwnerOnBookingStart", 0, 0)
    /\ UNCHANGED <<bookings, created, now, stripeConfigured, emailConfigured, clientVars,
                   whatsappConfigured, gplPc, providerCalls,
                   linksIssued, paymentsEnabled, auditLogs, owed, roleVars>>

\* One iteration of the for loop of sendOwnerNotification.
sendOwnerNotification(ok) ==
    /\ notify.pc = "loop"
    /\ LET result == RunAttempt(Attempts[notify.i], ok)
           delivered == (result = "sent") \/ notify.delivered
       IN notify' = [notify EXCEPT
                !.delivered = delivered,
                !.log = Append(@, [ch |-> Attempts[notify.i], result |-> result]),
                !.i = @ + 1,
                !.pc = IF LoopBreaks(delivered) \/ notify.i = Len(Attempts)
                       THEN "finish" ELSE "loop"]
    /\ last' = Last("sendOwnerNotification", 0, 0)
    /\ UNCHANGED <<bookings, created, now, stripeConfigured, emailConfigured, clientVars,
                   whatsappConfigured, gplPc, providerCalls,
                   linksIssued, paymentsEnabled,
                   auditLogs, owed, roleVars>>

\* The handler after sendOwnerNotification: the stamp, or the catch block.
\* code 1 reports an exception leaving the handler.
notifyOwnerOnBooking ==
    /\ notify.pc = "finish"
    /\ IF NotifyMarks(notify.delivered)
       THEN bookings' = NotifyStamp(notify.b)
       ELSE UNCHANGED bookings
    /\ last' = Last("notifyOwnerOnBooking",
                    IF NotifyHandlerThrows(~notify.delivered) THEN 1 ELSE 0,
                    IF NotifyMarks(notify.delivered) THEN 1 ELSE 0)
    /\ notify' = IdleNotify
    /\ owed' = IF NotifyRetry /\ NotifyHandlerThrows(~notify.delivered)
               THEN owed ELSE owed \ {notify.b}
    /\ UNCHANGED <<created, now, stripeConfigured, emailConfigured, clientVars,
                   whatsappConfigured, gplPc, providerCalls,
                   linksIssued, paymentsEnabled,
                   auditLogs, roleVars>>

\* ------------------------------------------------ emergencyDisablePayments
\* (verifyEmergencyTeamMember without the emergency_access claim)
verifyEmergencyTeamMemberByRole(uid) ==
    /\ uid \in EMERGENCY_RESPONSE_TEAM
    /\ uid \in Users
    /\ CustomClaims(uid).admin
    /\ CustomClaims(uid).role = "super_admin"

verifyEmergencyTeamMember(uid) ==
    /\ uid \in EMERGENCY_RESPONSE_TEAM
    /\ uid \in Users
    /\ CustomClaims(uid).admin
    /\ CustomClaims(uid).role = "super_admin"
    /\ CustomClaims(uid).emergency_access

\* Audit entries of the caller for this function in the last hour and day;
\* the model's horizon is shorter than an hour, so every entry counts.
checkEmergencyRateLimit(logs) ==
    ~(logs >= maxCallsPerHour) /\ ~(logs >= maxCallsPerDay)

\* HttpsError of the call as its HTTP status, 200 for success.
EmergencyDisableStatus(caller, fieldsOk) ==
    IF caller = "anon" THEN 401
    ELSE IF ~fieldsOk THEN 400
    ELSE IF ~verifyEmergencyTeamMember(caller) THEN 403
    ELSE IF ~checkEmergencyRateLimit(auditLogs["emergencyDisablePayments"]) THEN 429
    ELSE 200

\* The batch update: every pending or pending_payment booking is suspended.
Suspended(caller) ==
    [b \in Ids |->
        IF bookings[b].status \in {"pending_payment", "pending"}
        THEN [bookings[b] EXCEPT !.status = "suspended", !.suspendedBy = caller]
        ELSE bookings[b]]

\* The awaited Firestore writes of the try blocks, in the order the code
\* makes them: "log" and "status" are the two writes of logEmergencyAction.
\* failAt names the write that rejects, "none" when every write succeeds;
\* the writes before it have been applied when the catch answers internal.
DisableWrites == <<"config", "batch", "log", "status">>
EnableWrites == <<"config", "log", "status">>
BackupWrites == <<"backup", "log", "status">>

FailPoints(writes) == {"none"} \cup {writes[i] : i \in 1..Len(writes)}

WriteIndex(writes, w) == CHOOSE i \in 1..Len(writes) : writes[i] = w

WriteDone(writes, failAt, w) ==
    failAt = "none" \/ WriteIndex(writes, w) < WriteIndex(writes, failAt)

\* The status of a call that passed its checks: 500 (internal) when a write
\* rejected.
TryStatus(failAt) == IF failAt = "none" THEN 200 ELSE 500

emergencyDisablePaymentsWrites(caller, fieldsOk, failAt) ==
    /\ last' = Last("emergencyDisablePayments",
                    IF EmergencyDisableStatus(caller, fieldsOk) = 200
                    THEN TryStatus(failAt)
                    ELSE EmergencyDisableStatus(caller, fieldsOk),
                    IF /\ EmergencyDisableStatus(caller, fieldsOk) = 200
                       /\ WriteDone(DisableWrites, failAt, "batch")
                    THEN 2 ELSE 0)
    /\ IF EmergencyDisableStatus(caller, fieldsOk) = 200
       THEN /\ paymentsEnabled' = IF WriteDone(DisableWrites, failAt, "config")
                                  THEN FALSE ELSE paymentsEnabled
            /\ bookings' = IF WriteDone(DisableWrites, failAt, "batch")
                           THEN Suspended(caller) ELSE bookings
            /\ auditLogs' = IF WriteDone(DisableWrites, failAt, "log")
                            THEN [auditLogs EXCEPT !["emergencyDisablePayments"] = @ + 1]
                            ELSE auditLogs
       ELSE UNCHANGED <<paymentsEnabled, bookings, auditLogs>>
    /\ UNCHANGED <<created, now, stripeConfigured, emailConfigured, clientVars,
                   whatsappConfigured, gplPc, providerCalls,
                   linksIssued, notify, owed, roleVars>>

\* The call in which every write succeeds.
emergencyDisablePayments(caller, fieldsOk) ==
    emergencyDisablePaymentsWrites(caller, fieldsOk, "none")

\* emergencyEnablePayments: the same authentication, input and team checks
\* as emergencyDisablePayments, and no rate limit check.
EmergencyEnableStatus(caller, fieldsOk) ==
    IF caller = "anon" THEN 401
    ELSE IF ~fieldsOk THEN 400
    ELSE IF ~verifyEmergencyTeamMember(caller) THEN 403
    ELSE 200

emergencyEnablePaymentsWrites(caller, fieldsOk, failAt) ==
    /\ EmergencyEnableStatus(caller, fieldsOk) = 200
       => auditLogs["emergencyEnablePayments"] < MaxEmergencyCalls
    /\ last' = Last("emergencyEnablePayments",
                    IF EmergencyEnableStatus(caller, fieldsOk) = 200
                    THEN TryStatus(failAt)
                    ELSE EmergencyEnableStatus(caller, fieldsOk),
                    0)
    /\ IF EmergencyEnableStatus(caller, fieldsOk) = 200
       THEN /\ paymentsEnabled' = IF WriteDone(EnableWrites, failAt, "config")
                                  THEN TRUE ELSE paymentsEnabled
            /\ auditLogs' = IF WriteDone(EnableWrites, failAt, "log")
                            THEN [auditLogs EXCEPT !["emergencyEnablePayments"] = @ + 1]
                            ELSE auditLogs
       ELSE UNCHANGED <<paymentsEnabled, auditLogs>>
    /\ UNCHANGED <<bookings, created, now, stripeConfigured, emailConfigured, clientVars,
                   whatsappConfigured, gplPc, providerCalls,
                   linksIssued, notify, owed, roleVars>>

emergencyEnablePayments(caller, fieldsOk) ==
    emergencyEnablePaymentsWrites(caller, fieldsOk, "none")

\* emergencyDatabaseBackup: the same checks as emergencyEnablePayments; a
\* backup record is created in emergency_backups.
emergencyDatabaseBackupWrites(caller, fieldsOk, failAt) ==
    /\ EmergencyEnableStatus(caller, fieldsOk) = 200
       => /\ auditLogs["emergencyDatabaseBackup"] < MaxEmergencyCalls
          /\ backups < MaxEmergencyCalls
    /\ last' = Last("emergencyDatabaseBackup",
                    IF EmergencyEnableStatus(caller, fieldsOk) = 200
                    THEN TryStatus(failAt)
                    ELSE EmergencyEnableStatus(caller, fieldsOk),
                    0)
    /\ IF EmergencyEnableStatus(caller, fieldsOk) = 200
       THEN /\ backups' = IF WriteDone(BackupWrites, failAt, "backup")
                          THEN backups + 1 ELSE backups
            /\ auditLogs' = IF WriteDone(BackupWrites, failAt, "log")
                            THEN [auditLogs EXCEPT !["emergencyDatabaseBackup"] = @ + 1]
                            ELSE auditLogs
       ELSE UNCHANGED <<backups, auditLogs>>
    /\ UNCHANGED <<bookings, created, now, stripeConfigured, emailConfigured, clientVars,
                   whatsappConfigured, gplPc, providerCalls,
                   linksIssued, notify, paymentsEnabled, owed,
                   customClaims, roleRequests, approvals>>

emergencyDatabaseBackup(caller, fieldsOk) ==
    emergencyDatabaseBackupWrites(caller, fieldsOk, "none")

\* ------------------------------------------------ roles
\* HTTP status the callable protocol gives an HttpsError code; an Error
\* that is not an HttpsError is reported as internal.
HttpsErrorStatus(err) ==
    CASE err = "" -> 200
      [] err = "unauthenticated" -> 401
      [] err = "permission-denied" -> 403
      [] err = "not-found" -> 404
      [] err = "resource-exhausted" -> 429
      [] err \in {"invalid-argument", "failed-precondition"} -> 400
      [] OTHER -> 500

\* request.auth.token of a callable request: the decoded token, an object.
RequestAuthToken == "DecodedIdToken"

\* getAuth().verifyIdToken rejects an argument that is not a JWT string.
VerifyIdTokenRejects(arg) == arg # "string"

\* The caller check of setAdminRole and removeAdminRole: the token passed
\* to verifyIdToken must verify and carry admin and role super_admin.
CallerMayAssignRoles(caller) ==
    /\ caller \in Users
    /\ ~VerifyIdTokenRejects(RequestAuthToken)
    /\ CustomClaims(caller).admin
    /\ CustomClaims(caller).role = "super_admin"

\* setAdminRole throws plain Errors, which the caller sees as internal.
SetAdminRoleError(caller, targetUid, role) ==
    IF caller = "anon" THEN "internal"
    ELSE IF targetUid = "" \/ role = "" THEN "internal"
    ELSE IF role \notin AdminRole THEN "internal"
    ELSE IF ~CallerMayAssignRoles(caller) THEN "internal"
    ELSE IF targetUid \notin Users THEN "internal"
    ELSE ""

setAdminRole(caller, targetUid, role) ==
    /\ last' = LastErr("setAdminRole",
                       HttpsErrorStatus(SetAdminRoleError(caller, targetUid, role)), 0,
                       SetAdminRoleError(caller, targetUid, role))
    /\ IF SetAdminRoleError(caller, targetUid, role) = ""
       THEN customClaims' = [customClaims EXCEPT ![targetUid] =
                [admin |-> TRUE, role |-> role, emergency_access |-> FALSE,
                 permissions |-> ROLE_PERMISSIONS[role]]]
       ELSE UNCHANGED customClaims
    /\ UNCHANGED <<bookings, created, now, stripeConfigured, emailConfigured, clientVars,
                   whatsappConfigured, gplPc, providerCalls,
                   linksIssued, notify, paymentsEnabled, auditLogs, owed,
                   roleRequests, approvals, backups>>

removeAdminRole(caller, targetUid) ==
    /\ last' = LastErr("removeAdminRole",
                       HttpsErrorStatus(SetAdminRoleError(caller, targetUid, "admin")), 0,
                       SetAdminRoleError(caller, targetUid, "admin"))
    /\ IF SetAdminRoleError(caller, targetUid, "admin") = ""
       THEN customClaims' = [customClaims EXCEPT ![targetUid] =
                [admin |-> FALSE, role |-> "none", emergency_access |-> FALSE,
                 permissions |-> <<>>]]
       ELSE UNCHANGED customClaims
    /\ UNCHANGED <<bookings, created, now, stripeConfigured, emailConfigured, clientVars,
                   whatsappConfigured, gplPc, providerCalls,
                   linksIssued, notify, paymentsEnabled, auditLogs, owed,
                   roleRequests, approvals, backups>>

\* verifySuperAdmin: a designated uid whose user has the super admin claims.
verifySuperAdmin(uid) ==
    /\ uid \in DESIGNATED_SUPER_ADMINS
    /\ uid \in Users
    /\ CustomClaims(uid).admin
    /\ CustomClaims(uid).role = "super_admin"

RequestRoleAssignmentError(caller, fieldsOk) ==
    IF caller = "anon" THEN "unauthenticated"
    ELSE IF ~fieldsOk THEN "invalid-argument"
    ELSE IF ~(/\ CustomClaims(caller).admin
              /\ CustomClaims(caller).role \in {"super_admin", "admin"})
    THEN "permission-denied"
    ELSE ""

\* requestRoleAssignment: the request document is added with status
\* pending_super_admin_approval.
requestRoleAssignment(caller, targetUid, role, fieldsOk) ==
    /\ RequestRoleAssignmentError(caller, fieldsOk) = ""
       => Len(roleRequests) < MaxRequests
    /\ last' = LastErr("requestRoleAssignment",
                       HttpsErrorStatus(RequestRoleAssignmentError(caller, fieldsOk)), 0,
                       RequestRoleAssignmentError(caller, fieldsOk))
    /\ IF RequestRoleAssignmentError(caller, fieldsOk) = ""
       THEN roleRequests' = Append(roleRequests,
                [targetUid |-> targetUid, role |-> role, requestedBy |-> caller,
                 status |-> "pending_super_admin_approval", decidedBy |-> NoUser])
       ELSE UNCHANGED roleRequests
    /\ UNCHANGED <<bookings, created, now, stripeConfigured, emailConfigured, clientVars,
                   whatsappConfigured, gplPc, providerCalls,
                   linksIssued, notify, paymentsEnabled, auditLogs, owed,
                   customClaims, approvals, backups>>

\* (approveRoleAssignment without the check of the request's status)
ApproveRoleAssignmentErrorAnyStatus(caller, requestId, action) ==
    IF caller = "anon" THEN "unauthenticated"
    ELSE IF ~verifySuperAdmin(caller) THEN "permission-denied"
    ELSE IF requestId \notin DOMAIN roleRequests THEN "not-found"
    ELSE IF action = "approve"
    THEN (IF roleRequests[requestId].targetUid \notin Users THEN "internal" ELSE "")
    ELSE IF action = "reject" THEN ""
    ELSE "invalid-argument"

\* The HttpsError approveRoleAssignment throws; setCustomUserClaims rejects
\* for a uid that names no user, which the catch block reports as internal.
ApproveRoleAssignmentError(caller, requestId, action) ==
    IF caller = "anon" THEN "unauthenticated"
    ELSE IF ~verifySuperAdmin(caller) THEN "permission-denied"
    ELSE IF requestId \notin DOMAIN roleRequests THEN "not-found"
    ELSE IF roleRequests[requestId].status # "pending_super_admin_approval"
    THEN "failed-precondition"
    ELSE IF action = "approve"
    THEN (IF roleRequests[requestId].targetUid \notin Users THEN "internal" ELSE "")
    ELSE IF action = "reject" THEN ""
    ELSE "invalid-argument"

approveRoleAssignment(caller, requestId, action) ==
    /\ last' = LastErr("approveRoleAssignment",
                       HttpsErrorStatus(ApproveRoleAssignmentError(caller, requestId, action)),
                       0, ApproveRoleAssignmentError(caller, requestId, action))
    /\ IF ApproveRoleAssignmentError(caller, requestId, action) # ""
       THEN UNCHANGED <<customClaims, roleRequests>>
       ELSE IF action = "approve"
       THEN /\ customClaims' =
                 [customClaims EXCEPT ![roleRequests[requestId].targetUid] =
                     [admin |-> TRUE, role |-> roleRequests[requestId].role,
                      emergency_access |-> FALSE,
                      permissions |-> getRolePermissions(roleRequests[requestId].role)]]
            /\ roleRequests' = [roleRequests EXCEPT ![requestId] =
                     [@ EXCEPT !.status = "approved", !.decidedBy = caller]]
       ELSE /\ roleRequests' = [roleRequests EXCEPT ![requestId] =
                     [@ EXCEPT !.status = "rejected", !.decidedBy = caller]]
            /\ UNCHANGED customClaims
    /\ UNCHANGED <<bookings, created, now, stripeConfigured, emailConfigured, clientVars,
                   whatsappConfigured, gplPc, providerCalls,
                   linksIssued, notify, paymentsEnabled, auditLogs, owed,
                   approvals, backups>>

\* approveRoleAssignment up to its read of the request: the call has passed
\* the checks of ApproveRoleAssignmentError on the document it read and
\* holds that copy (requestData) while it awaits its writes.
approveRoleAssignmentGet(caller, requestId, action) ==
    /\ Len(approvals) < MaxInFlight
    /\ action \in {"approve", "reject"}
    /\ ApproveRoleAssignmentError(caller, requestId, action) \in {"", "internal"}
    /\ approvals' = Append(approvals,
                           [caller |-> caller, requestId |-> requestId, action |-> action,
                            requestData |-> roleRequests[requestId]])
    /\ last' = LastErr("approveRoleAssignment", 0, 0, "")
    /\ UNCHANGED <<bookings, created, now, stripeConfigured, emailConfigured, clientVars,
                   whatsappConfigured, gplPc, providerCalls,
                   linksIssued, notify, paymentsEnabled, auditLogs, owed,
                   customClaims, roleRequests, backups>>

\* The rest of the sequence without its i-th element.
Without(seq, i) == SubSeq(seq, 1, i - 1) \o SubSeq(seq, i + 1, Len(seq))

\* The writes of the i-th call in flight, from the copy it read:
\* setCustomUserClaims and requestDoc.ref.update for approve (nothing when
\* setCustomUserClaims rejects an unknown uid), the update alone for reject.
approveRoleAssignmentWrites(i) ==
    /\ i \in 1..Len(approvals)
    /\ approvals' = Without(approvals, i)
    /\ IF approvals[i].action = "approve" /\ approvals[i].requestData.targetUid \notin Users
       THEN /\ last' = LastErr("approveRoleAssignment", HttpsErrorStatus("internal"), 0,
                               "internal")
            /\ UNCHANGED <<customClaims, roleRequests>>
       ELSE IF approvals[i].action = "approve"
       THEN /\ customClaims' =
                 [customClaims EXCEPT ![approvals[i].requestData.targetUid] =
                     [admin |-> TRUE, role |-> approvals[i].requestData.role,
                      emergency_access |-> FALSE,
                      permissions |-> getRolePermissions(approvals[i].requestData.role)]]
            /\ roleRequests' = [roleRequests EXCEPT ![approvals[i].requestId] =
                     [@ EXCEPT !.status = "approved", !.decidedBy = approvals[i].caller]]
            /\ last' = LastErr("approveRoleAssignment", 200, 0, "")
       ELSE /\ roleRequests' = [roleRequests EXCEPT ![approvals[i].requestId] =
                     [@ EXCEPT !.status = "rejected", !.decidedBy = approvals[i].caller]]
            /\ UNCHANGED customClaims
            /\ last' = LastErr("approveRoleAssignment", 200, 0, "")
    /\ UNCHANGED <<bookings, created, now, stripeConfigured, emailConfigured, clientVars,
                   whatsappConfigured, gplPc, providerCalls,
                   linksIssued, notify, paymentsEnabled, auditLogs, owed,
                   backups>>

\* ------------------------------------------------ specifications
CreateActions ==
    \E storeOk \in BOOLEAN, d \in {0, 1} : createBooking(storeOk, d)

ClientActions ==
    \/ CreateActions
    \/ \E b \in 1..MaxBookings, s \in BookingStatus, d \in {0, 1} :
           updateBookingStatus(b, s, d)

LinkVariantActions ==
    \E b \in 1..MaxBookings, s \in BookingStatus, d \in {0, 1} :
        updateBookingStatusLinkVariant(b, s, d)

ConfirmActions ==
    \E method \in {"GET", "POST"}, bookingId \in 0..MaxBookings,
       adminId \in Users \cup {"", "ghost"} :
        confirmBooking(method, bookingId, adminId)

TriggerActions ==
    \E b \in 1..MaxBookings : generatePaymentLinkStart(b)

TriggerV1Actions ==
    \/ \E b \in 1..MaxBookings : generatePaymentLinkV1Start(b)
    \/ \E b \in 1..MaxBookings, ok \in BOOLEAN : generatePaymentLinkFinish(b, ok)

WebhookActions ==
    \E sigOk \in BOOLEAN, type \in EventTypes, meta \in 0..(MaxBookings + 1) :
        handleStripeWebhook(sigOk, type, meta)

PaymentActions == TriggerActions \/ WebhookActions

NotifyActions ==
    \/ \E b \in 1..MaxBookings : notifyOwnerOnBookingStart(b)
    \/ \E ok \in BOOLEAN : sendOwnerNotification(ok)
    \/ notifyOwnerOnBooking

EmergencyActions ==
    \E caller \in Users \cup {"anon"}, fieldsOk \in BOOLEAN :
        emergencyDisablePayments(caller, fieldsOk)

EnableActions ==
    \E caller \in Users \cup {"anon"}, fieldsOk \in BOOLEAN :
        emergencyEnablePayments(caller, fieldsOk)

BackupActions ==
    \E caller \in Users \cup {"anon"}, fieldsOk \in BOOLEAN :
        emergencyDatabaseBackup(caller, fieldsOk)

\* The emergency calls with the outcomes of their writes.
EmergencyWriteActions ==
    \/ \E caller \in Users \cup {"anon"}, fieldsOk \in BOOLEAN,
          failAt \in FailPoints(DisableWrites) :
           emergencyDisablePaymentsWrites(caller, fieldsOk, failAt)
    \/ \E caller \in Users \cup {"anon"}, fieldsOk \in BOOLEAN,
          failAt \in FailPoints(EnableWrites) :
           emergencyEnablePaymentsWrites(caller, fieldsOk, failAt)
    \/ \E caller \in Users \cup {"anon"}, fieldsOk \in BOOLEAN,
          failAt \in FailPoints(BackupWrites) :
           emergencyDatabaseBackupWrites(caller, fieldsOk, failAt)

EmergencyRecoveryActions ==
    \/ EnableActions
    \/ BackupActions

\* Inputs of the role functions
FormInputActions ==
    \/ \E service \in Services : openBookingModal(service)
    \/ \E field \in {"bookingDate", "startDate", "endDate"}, value \in DateInputValues :
           enterDate(field, value)

SubmitActions == \E storeOk \in BOOLEAN, d \in 0..1 : submitBooking(storeOk, d)

DashboardActions ==
    \/ ngOnInit
    \/ \E user \in BOOLEAN, readDenied \in BOOLEAN : onAuthStateChanged(user, readDenied)
    \/ ngOnDestroy

TestActions == testErrorHandling

RoleTargets == {"owner", "ghost"}
RoleInputs == {"super_admin", "manager"}

DirectRoleActions ==
    \/ \E caller \in Users \cup {"anon"}, targetUid \in RoleTargets \cup {""},
          role \in RoleInputs \cup {"root"} :
           setAdminRole(caller, targetUid, role)
    \/ \E caller \in Users \cup {"anon"}, targetUid \in RoleTargets \cup {""} :
           removeAdminRole(caller, targetUid)

RoleRequestActions ==
    \/ \E caller \in Users \cup {"anon"}, targetUid \in RoleTargets,
          role \in RoleInputs \cup {"root"}, fieldsOk \in BOOLEAN :
           requestRoleAssignment(caller, targetUid, role, fieldsOk)
    \/ \E caller \in Users \cup {"anon"}, requestId \in 1..(MaxRequests + 1),
          action \in {"approve", "reject", "other"} :
           approveRoleAssignment(caller, requestId, action)

\* approveRoleAssignment calls that overlap.
ConcurrentApprovalActions ==
    \/ \E caller \in Users, requestId \in 1..MaxRequests, action \in {"approve", "reject"} :
           approveRoleAssignmentGet(caller, requestId, action)
    \/ \E i \in 1..MaxInFlight : approveRoleAssignmentWrites(i)

\* Every specification below starts from Init (or from Init with the
\* unread configuration flags fixed) and takes a subset of the steps of
\* System, so each of its behaviours is a behaviour of the whole system.
System ==
    \/ Tick
    \/ ClientActions
    \/ LinkVariantActions
    \/ ConfirmActions
    \/ PaymentActions
    \/ TriggerV1Actions
    \/ NotifyActions
    \/ EmergencyActions
    \/ EmergencyRecoveryActions
    \/ DirectRoleActions
    \/ RoleRequestActions
    \/ EmergencyWriteActions
    \/ FormInputActions
    \/ SubmitActions
    \/ DashboardActions
    \/ TestActions
    \/ ConcurrentApprovalActions

SpecSystem == Init /\ [][System]_vars

InitPayment == InitWith(BOOLEAN, {FALSE}, {FALSE})

InitNotify == InitWith({FALSE}, BOOLEAN, BOOLEAN)

InitRoles == InitWith({FALSE}, {FALSE}, {FALSE})

\* The operations that write a booking's status in one step: the
\* confirmBooking endpoint, the webhook and the client service.
Next ==
    \/ Tick
    \/ ConfirmActions
    \/ WebhookActions
    \/ ClientActions

Spec == InitPayment /\ [][Next]_vars

\* The confirmBooking endpoint with the booking form.
NextConfirm ==
    \/ Tick
    \/ CreateActions
    \/ ConfirmActions

SpecConfirm == InitPayment /\ [][NextConfirm]_vars

\* The client service next to its payment-link variant.
NextLinkVariant ==
    \/ Tick
    \/ ClientActions
    \/ LinkVariantActions

SpecLinkVariant == InitPayment /\ [][NextLinkVariant]_vars

\* The payment functions with the client service.
NextPayment ==
    \/ Tick
    \/ ClientActions
    \/ PaymentActions

SpecPayment == InitPayment /\ [][NextPayment]_vars

\* The v1 creation trigger with the client service.
NextPaymentV1 ==
    \/ Tick
    \/ ClientActions
    \/ TriggerV1Actions

SpecPaymentV1 == InitPayment /\ [][NextPaymentV1]_vars

\* The payment webhook with the client service.
NextWebhook ==
    \/ Tick
    \/ ClientActions
    \/ WebhookActions

SpecWebhook == InitPayment /\ [][NextWebhook]_vars

\* The notification function with the client service.
NextNotify ==
    \/ Tick
    \/ ClientActions
    \/ NotifyActions

SpecNotify == InitNotify /\ [][NextNotify]_vars

\* The first delivery of a booking's creation event, which the event system
\* owes; notifyOwnerOnBookingStart of a settled event is a duplicate delivery.
DeliverOwed == \E b \in owed : notifyOwnerOnBookingStart(b)

\* An attempt that delivers the message.
AttemptDelivers == sendOwnerNotification(TRUE) /\ notify'.delivered

\* The notification function under the scheduling the platform gives it: an
\* owed event is delivered, a started invocation runs to its end, and a
\* channel's failures are transient (an attempt that is made again and
\* again delivers at some point).  Duplicate deliveries may happen and are
\* not promised.
SpecNotifyLive ==
    /\ InitNotify
    /\ [][NextNotify]_vars
    /\ WF_vars(DeliverOwed)
    /\ WF_vars(\E ok \in BOOLEAN : sendOwnerNotification(ok))
    /\ WF_vars(notifyOwnerOnBooking)
    /\ SF_vars(AttemptDelivers)

\* The creation trigger and the emergency switch with the client service.
NextEmergency ==
    \/ Tick
    \/ ClientActions
    \/ TriggerActions
    \/ EmergencyActions

SpecEmergency == InitPayment /\ [][NextEmergency]_vars

\* The payment functions under the emergency switch.
NextSwitch ==
    \/ CreateActions
    \/ TriggerActions
    \/ WebhookActions
    \/ EmergencyActions
    \/ EnableActions

SpecSwitch == InitPayment /\ [][NextSwitch]_vars

\* submitBooking called in any state of the form.
NextSubmit ==
    \/ Tick
    \/ FormInputActions
    \/ SubmitActions

SpecSubmit == InitRoles /\ [][NextSubmit]_vars

\* The creation trigger, in either version, on the bookings of the form and
\* of the error handling test.
NextInvalidService ==
    \/ Tick
    \/ CreateActions
    \/ TestActions
    \/ TriggerActions
    \/ TriggerV1Actions

SpecInvalidService == InitPayment /\ [][NextInvalidService]_vars

\* Role requests decided by overlapping approveRoleAssignment calls.
NextApproval ==
    \/ RoleRequestActions
    \/ ConcurrentApprovalActions

SpecApproval == InitRoles /\ [][NextApproval]_vars

\* The admin dashboard page over bookings that come and go.
NextDashboard ==
    \/ Tick
    \/ CreateActions
    \/ DashboardActions

SpecDashboard == InitRoles /\ [][NextDashboard]_vars



\* The three emergency functions.
NextRateLimit ==
    \/ EmergencyActions
    \/ EmergencyRecoveryActions

SpecRateLimit == InitRoles /\ [][NextRateLimit]_vars

\* The role functions.
NextRoles ==
    \/ DirectRoleActions
    \/ RoleRequestActions

SpecRoles == InitRoles /\ [][NextRoles]_vars

\* Emergency calls that have completed so far.
EmergencyCallsMade ==
    auditLogs["emergencyDisablePayments"] + auditLogs["emergencyEnablePayments"]
    + auditLogs["emergencyDatabaseBackup"]

\* The emergency functions with failing writes, over created bookings.
NextAudit ==
    \/ CreateActions
    \/ EmergencyCallsMade < MaxPrivilegedCalls /\ EmergencyWriteActions

SpecAudit == InitRoles /\ [][NextAudit]_vars

\* Every privileged function: roles and emergency actions, with the
\* booking form supplying the bookings the emergency switch suspends; the
\* behaviours explored hold at most MaxPrivilegedCalls completed emergency
\* calls.
NextPrivileged ==
    \/ CreateActions
    \/ DirectRoleActions
    \/ RoleRequestActions
    \/ EmergencyCallsMade < MaxPrivilegedCalls /\ EmergencyActions
    \/ EmergencyCallsMade < MaxPrivilegedCalls /\ EmergencyRecoveryActions

SpecPrivileged == InitRoles /\ [][NextPrivileged]_vars

\* ------------------------------------------------ claims
\* C1: in every reachable state, every booking has paidAt present if and
\* only if its status is confirmed.
C1_PaidAtIffConfirmed ==
    \A b \in Ids :
        (bookings[b].paidAt # NoTime) <=> (bookings[b].status = "confirmed")

\* C2: updateBookingStatus(id, s) on an existing booking sets status to s
\* and updatedAt to the time of the call; for s = confirmed it sets paidAt
\* to a time not earlier than the updatedAt the booking had before, and for
\* every other s it removes paidAt.  Stated of both variants of the service.
C2_UpdateStatusEffect ==
    [][\A b \in Ids, s \in BookingStatus, d \in {0, 1} :
          (updateBookingStatus(b, s, d) \/ updateBookingStatusLinkVariant(b, s, d))
          => /\ bookings'[b].status = s
             /\ bookings'[b].updatedAt = now
             /\ IF s = "confirmed"
                THEN /\ bookings'[b].paidAt # NoTime
                     /\ bookings'[b].paidAt >= bookings[b].updatedAt
                ELSE bookings'[b].paidAt = NoTime]_vars

\* C3: right after createBooking has stored a document, the document has
\* status pending, createdAt equal to updatedAt, no paidAt and no
\* ownerNotifiedAt, and the id returned is the id the store generated.
C3_CreatedDocument ==
    (last.op = "createBooking" /\ last.code # 0)
    => /\ last.code = Len(bookings)
       /\ bookings[last.code].status = "pending"
       /\ bookings[last.code].createdAt = bookings[last.code].updatedAt
       /\ bookings[last.code].paidAt = NoTime
       /\ bookings[last.code].ownerNotifiedAt = NoTime

\* C4: no step changes the status of a cancelled booking; a step that moves
\* a booking out of confirmed is an updateBookingStatus call and leaves it
\* without paidAt.
C4_TerminalStatuses ==
    [][\A b \in Ids :
          /\ bookings[b].status = "cancelled" => bookings'[b].status = "cancelled"
          /\ (bookings[b].status = "confirmed" /\ bookings'[b].status # "confirmed")
             => /\ last'.op \in {"updateBookingStatus", "updateBookingStatusLinkVariant"}
                /\ bookings'[b].paidAt = NoTime]_vars

\* C5: the status of every booking is one of pending, pending_payment,
\* confirmed, cancelled.
C5_StatusInEnum ==
    \A b \in Ids : bookings[b].status \in BookingStatus

\* C6: once a booking carries a payment link, a step of generatePaymentLink
\* for it makes no provider call and leaves its document unchanged.
C6_TriggerIdempotent ==
    [][\A b \in Ids :
          (/\ bookings[b].paymentLink # NoLink
           /\ \/ generatePaymentLinkStart(b)
              \/ generatePaymentLinkV1Start(b)
              \/ \E ok \in BOOLEAN : generatePaymentLinkFinish(b, ok))
          => /\ providerCalls'[b] = providerCalls[b]
             /\ bookings'[b] = bookings[b]]_vars

\* C7: a signature-valid checkout.session.completed or
\* payment_intent.succeeded event naming an existing booking leaves it
\* confirmed, and when the document already shows that event applied
\* (confirmed, with the event's paymentId) the delivery changes nothing.
C7_WebhookConfirmsOnce ==
    [][\A type \in HandledEventTypes, meta \in Ids :
          (stripeConfigured /\ handleStripeWebhook(TRUE, type, meta))
          => /\ bookings'[meta].status = "confirmed"
             /\ (/\ bookings[meta].status = "confirmed"
                 /\ bookings[meta].paymentId = PaymentIdOf(type))
                => bookings'[meta] = bookings[meta]]_vars

C9_EmailBeforeWhatsApp ==
    LET log == notify.log IN
    /\ Len(log) >= 1 => log[1].ch = "email"
    /\ \A i \in 1..Len(log) :
          log[i].ch = "whatsapp"
          => /\ i = 2
             /\ log[1].result \in {"unconfigured", "failed"}
    /\ \A i \in 1..Len(log) : log[i].result = "sent" => i = Len(log)

C9_Witness ==
    /\ Len(notify.log) = 2
    /\ notify.log[1] = [ch |-> "email", result |-> "failed"]
    /\ notify.log[2] = [ch |-> "whatsapp", result |-> "sent"]

\* Some attempt of the invocation delivered the message.
Delivered(log) == \E i \in 1..Len(log) : log[i].result = "sent"

C11_EventuallyNotified ==
    \A b \in 1..MaxBookings :
        [](((emailConfigured \/ whatsappConfigured) /\ b \in Ids)
           => <>(b \in Ids /\ bookings[b].ownerNotifiedAt # NoTime))
\* Attempts of an invocation that made a request (fetch was called).
OutboundCalls(log) == {i \in 1..Len(log) : log[i].result # "unconfigured"}

\* The environment holds the credentials of channel ch.
ChannelConfigured(ch) ==
    IF ch = "email" THEN emailConfigured ELSE whatsappConfigured

\* C12 as stated: an invocation in which some channel succeeded has made
\* exactly one outbound call.
C12_ExactlyOneCall ==
    (notify.pc = "finish" /\ notify.delivered)
    => Cardinality(OutboundCalls(notify.log)) = 1

\* C12 amended: an invocation in which some channel succeeded has made
\* exactly one successful call, the last one; every call went to a
\* configured channel; the calls are one more than the channels that
\* failed before it, so exactly one when email is unconfigured or delivered
\* and two when a configured email channel failed.
C12_OneCallSucceeds ==
    (notify.pc = "finish" /\ notify.delivered)
    => LET log == notify.log
           calls == OutboundCalls(log)
           failed == {i \in 1..Len(log) : log[i].result = "failed"}
       IN /\ Cardinality({i \in 1..Len(log) : log[i].result = "sent"}) = 1
          /\ log[Len(log)].result = "sent"
          /\ \A i \in calls : ChannelConfigured(log[i].ch)
          /\ Cardinality(calls) = 1 + Cardinality(failed)
          /\ Cardinality(calls) = IF emailConfigured /\ log[1].result = "failed"
                                  THEN 2 ELSE 1

C12_Witness ==
    /\ notify.pc = "finish"
    /\ notify.delivered
    /\ Cardinality(OutboundCalls(notify.log)) = 2
\* C13: no step of notifyOwnerOnBooking changes a field of a booking other
\* than ownerNotifiedAt and updatedAt of the booking it was invoked for:
\* status, paidAt and the customer fields stay as the other operations left
\* them, whatever the admin did between the event and the stamp.
C13_NotifyFrame ==
    [][last'.op \in {"notifyOwnerOnBookingStart", "sendOwnerNotification",
                     "notifyOwnerOnBooking"}
       => /\ Len(bookings') = Len(bookings)
          /\ \A b \in Ids :
                \A f \in DOMAIN bookings[b] :
                    bookings'[b][f] # bookings[b][f]
                    => /\ f \in {"ownerNotifiedAt", "updatedAt"}
                       /\ b = notify.b
                       /\ last'.op = "notifyOwnerOnBooking"]_vars

C13_Witness ==
    /\ last.op = "notifyOwnerOnBooking"
    /\ last.db = 1
    /\ \E b \in Ids :
          /\ bookings[b].ownerNotifiedAt = now
          /\ bookings[b].status = "confirmed"
          /\ bookings[b].paidAt # NoTime
          /\ bookings[b].customerName = "form"
\* C14: for a booking still pending and without a link, on the first
\* delivery of its creation event, generatePaymentLink without a configured
\* provider writes pending_payment, no link, and calls the provider zero
\* times; with a configured provider it calls the provider once, and when
\* that call succeeds it writes pending_payment and the returned URL.
C14_FreshBookingLinked ==
    [][\A b \in Ids :
          /\ (/\ generatePaymentLinkStart(b)
              /\ bookings[b].status = "pending"
              /\ bookings[b].paymentLink = NoLink
              /\ providerCalls[b] = 0)
             => IF ~stripeConfigured
                THEN /\ bookings'[b].status = "pending_payment"
                     /\ bookings'[b].paymentLink = NoLink
                     /\ providerCalls'[b] = 0
                ELSE /\ providerCalls'[b] = 1
                     /\ gplPc'[b] = "awaiting"
                     /\ bookings'[b] = bookings[b]
          /\ (generatePaymentLinkFinish(b, TRUE) /\ providerCalls[b] = 1)
             => /\ bookings'[b].status = "pending_payment"
                /\ bookings'[b].paymentLink = linksIssued'
                /\ bookings'[b].paymentLink # NoLink
                /\ providerCalls'[b] = 1]_vars
\* Operations a person starts: the admin's status update in the dashboard
\* and the confirmBooking endpoint.
ManualOps == {"updateBookingStatus", "updateBookingStatusLinkVariant", "confirmBooking"}

\* C15: when the provider call of generatePaymentLink fails, the booking is
\* left with status error and without a paymentLink, and afterwards the
\* status error is changed only by a manual operation.
C15_ErrorIsFinal ==
    [][\A b \in Ids :
          /\ generatePaymentLinkFinish(b, FALSE)
             => /\ bookings'[b].status = "error"
                /\ bookings'[b].paymentLink = NoLink
          /\ (bookings[b].status = "error" /\ bookings'[b].status # "error")
             => last'.op \in ManualOps]_vars
\* C16 as stated: confirmBooking answers 405 to a non-POST request, 400 when
\* bookingId or adminId is missing, 403 when the user named by adminId lacks
\* the admin claim, and 200 in every other case; only a request answered
\* 200 modifies a booking.
C16_ConfirmBookingCodes ==
    [][\A method \in {"GET", "POST"}, bookingId \in 0..MaxBookings,
          adminId \in Users \cup {"", "ghost"} :
          confirmBooking(method, bookingId, adminId)
          => /\ last'.code =
                   IF method # "POST" THEN 405
                   ELSE IF bookingId = 0 \/ adminId = "" THEN 400
                   ELSE IF adminId \in Users /\ ~CustomClaims(adminId).admin THEN 403
                   ELSE 200
             /\ last'.code # 200 => bookings' = bookings]_vars

\* C16 amended: 405, 400 and 403 as stated; 500 when adminId names no user
\* or when the admin's request names a booking that does not exist; 200 in
\* every other case, which leaves the named booking confirmed by adminId;
\* only a request answered 200 modifies a booking.
C16_ConfirmBookingCodesWith500 ==
    [][\A method \in {"GET", "POST"}, bookingId \in 0..MaxBookings,
          adminId \in Users \cup {"", "ghost"} :
          confirmBooking(method, bookingId, adminId)
          => /\ last'.code =
                   IF method # "POST" THEN 405
                   ELSE IF bookingId = 0 \/ adminId = "" THEN 400
                   ELSE IF adminId \notin Users THEN 500
                   ELSE IF ~CustomClaims(adminId).admin THEN 403
                   ELSE IF bookingId > Len(bookings) THEN 500
                   ELSE 200
             /\ last'.code # 200 => bookings' = bookings
             /\ last'.code = 200
                => /\ bookings'[bookingId].status = "confirmed"
                   /\ bookings'[bookingId].confirmedBy = adminId]_vars

C16_Witness ==
    /\ last.op = "confirmBooking"
    /\ last.code = 500
    /\ last.db = 0
    /\ \E b \in Ids : bookings[b].status = "pending"
\* The caller's current claims make them a super admin.
HoldsSuperAdmin(caller) ==
    /\ caller \in Users
    /\ customClaims[caller].admin
    /\ customClaims[caller].role = "super_admin"

\* The caller is on the emergency team list and holds the three claims.
HoldsEmergencyAccess(caller) ==
    /\ caller \in EMERGENCY_RESPONSE_TEAM
    /\ HoldsSuperAdmin(caller)
    /\ customClaims[caller].emergency_access

\* C17: a step of setAdminRole, removeAdminRole or approveRoleAssignment
\* that changes claims or role requests is made for a caller who holds
\* super_admin, and a step of an emergency function that changes the
\* payment switch, a booking, the audit log or the backups is made for a
\* caller on the emergency team list holding admin, super_admin and
\* emergency_access.
C17_PrivilegedOnlyForRole ==
    [][(<<customClaims, roleRequests, paymentsEnabled, bookings, auditLogs, backups>>'
          # <<customClaims, roleRequests, paymentsEnabled, bookings, auditLogs, backups>>)
       => /\ \A caller \in Users \cup {"anon"} :
                (\/ \E targetUid \in RoleTargets \cup {""}, role \in RoleInputs \cup {"root"} :
                       setAdminRole(caller, targetUid, role)
                 \/ \E targetUid \in RoleTargets \cup {""} :
                       removeAdminRole(caller, targetUid)
                 \/ \E requestId \in 1..(MaxRequests + 1),
                       action \in {"approve", "reject", "other"} :
                       approveRoleAssignment(caller, requestId, action))
                => HoldsSuperAdmin(caller)
          /\ \A caller \in Users \cup {"anon"} :
                (\E fieldsOk \in BOOLEAN :
                    \/ emergencyDisablePayments(caller, fieldsOk)
                    \/ emergencyEnablePayments(caller, fieldsOk)
                    \/ emergencyDatabaseBackup(caller, fieldsOk))
                => HoldsEmergencyAccess(caller)]_vars

C17_Witness ==
    /\ last.op \in EmergencyFunctions
    /\ last.code = 403
    /\ customClaims["owner"].role = "super_admin"
    /\ ~paymentsEnabled
    /\ \E r \in DOMAIN roleRequests : roleRequests[r].status = "approved"
\* The caller is a designated super admin.
DesignatedSuperAdmin(caller) ==
    caller \in DESIGNATED_SUPER_ADMINS /\ HoldsSuperAdmin(caller)

C19_RateLimited ==
    [][/\ EmergencyCallsMade' <= maxCallsPerHour
       /\ EmergencyCallsMade' <= maxCallsPerDay
       /\ last'.code = 429
          => UNCHANGED <<bookings, paymentsEnabled, auditLogs, backups>>]_vars
\* C20: while payments are disabled (from a successful
\* emergencyDisablePayments to the next successful emergencyEnablePayments)
\* no step gives a booking a payment link or moves it to pending_payment,
\* and no webhook step confirms a booking.
C20_DisabledStopsPayments ==
    [][~paymentsEnabled
       => \A b \in Ids :
             /\ bookings'[b].paymentLink = bookings[b].paymentLink
             /\ bookings'[b].status = "pending_payment"
                => bookings[b].status = "pending_payment"
             /\ (last'.op = "handleStripeWebhook" /\ bookings'[b].status = "confirmed")
                => bookings[b].status = "confirmed"]_vars
\* C21: whenever a step of an emergency function changes system_config
\* (paymentsEnabled), a booking or emergency_backups, the same step adds an
\* entry of that function to emergency_audit_logs, whatever it answers.
C21_ChangesAreLogged ==
    [][(last'.op \in EmergencyFunctions
        /\ <<paymentsEnabled, bookings, backups>>' # <<paymentsEnabled, bookings, backups>>)
       => auditLogs'[last'.op] = auditLogs[last'.op] + 1]_vars
\* C22: a submitBooking step on a car-rental form whose end date precedes
\* its start date shows the validation alert and leaves the bookings
\* collection as it was.
C22_ReversedRentalRejected ==
    [][\A storeOk \in BOOLEAN, d \in 0..1 :
          (/\ submitBooking(storeOk, d)
           /\ isCarRental
           /\ DateLess(bookingFormData.endDate, bookingFormData.startDate))
          => /\ bookings' = bookings
             /\ last'.err = "End date cannot be before start date."]_vars

C22_Witness ==
    /\ last.op = "submitBooking"
    /\ last.err = "End date cannot be before start date."
    /\ isCarRental
    /\ DateLess(bookingFormData.endDate, bookingFormData.startDate)
    /\ bookings = <<>>

\* A stored date field holds a value.
Populated(v) == v # NoDate

\* Stored date a is earlier than stored date b (an Invalid Date is not
\* earlier than any date).
Earlier(a, b) == ~IsNaN(a) /\ ~IsNaN(b) /\ a < b

Ceil(a, b) == -((-a) \div b)

\* The day count the rental pricing rule gives a pair of date strings.
RentalDaysRule(startDate, endDate) ==
    IF IsNaN(DateGetTime(startDate)) \/ IsNaN(DateGetTime(endDate)) THEN 0
    ELSE IF Ceil(DateGetTime(endDate) - DateGetTime(startDate), DayMs) + 1 > 0
         THEN Ceil(DateGetTime(endDate) - DateGetTime(startDate), DayMs) + 1
         ELSE 0

\* What C24 says of one state of the form.
PricingAsStated ==
    /\ \A startDate, endDate \in DateStrings :
           RentalDays(startDate, endDate) = RentalDaysRule(startDate, endDate)
    /\ RentalDays(1, 3) = 3
    /\ rentalDays = RentalDaysRule(bookingFormData.startDate, bookingFormData.endDate)
    /\ isCarRental => rentalTotal = rentalDays * ServicePrice(selectedService)
    /\ (isCarRental /\ rentalDays = 0) => ~datesValid

C25_NoListenerLeak ==
    /\ Cardinality(BookingsListeners) <= 1
    /\ ~mounted => (BookingsListeners = {} /\ authListeners = 0)
\* C26: a webhook request that passes the signature check with an event
\* type other than checkout.session.completed and payment_intent.succeeded
\* is answered 200 and changes no booking.
C26_UnhandledEventIgnored ==
    [][\A type \in EventTypes, meta \in 0..(MaxBookings + 1) :
          (/\ handleStripeWebhook(TRUE, type, meta)
           /\ stripeConfigured
           /\ type \notin {"checkout.session.completed", "payment_intent.succeeded"})
          => (last'.code = 200 /\ bookings' = bookings)]_vars

C26_Witness ==
    /\ last.op = "handleStripeWebhook"
    /\ last.event = "charge.refunded"
    /\ last.code = 200
    /\ \E b \in Ids : bookings[b].status = "pending"
\* A step in which a run of the creation trigger on booking b ends.
TriggerRunEnds(b) ==
    /\ \/ generatePaymentLinkStart(b)
       \/ generatePaymentLinkV1Start(b)
       \/ \E ok \in BOOLEAN : generatePaymentLinkFinish(b, ok)
    /\ gplPc'[b] = "idle"

\* C27: when a run of the creation trigger ends on a booking whose
\* serviceName is not in the price table, the booking has status error.
C27_UnknownServiceIsError ==
    [][\A b \in Ids :
          (TriggerRunEnds(b) /\ created[b].serviceName \notin DOMAIN SERVICE_PRICES)
          => bookings'[b].status = "error"]_vars
\* C28: a step of generatePaymentLink on a booking that is confirmed or
\* cancelled by then leaves its status as it is.
C28_TriggerKeepsDecidedStatus ==
    [][\A b \in Ids :
          (/\ bookings[b].status \in {"confirmed", "cancelled"}
           /\ \/ generatePaymentLinkStart(b)
              \/ generatePaymentLinkV1Start(b)
              \/ \E ok \in BOOLEAN : generatePaymentLinkFinish(b, ok))
          => bookings'[b].status = bookings[b].status]_vars
\* C29: the status of a request changes only while it is pending approval,
\* so a request is decided once, and the claims of a user change only in a
\* step that moves a pending request for that user to approved.
C29_DecidedAtMostOnce ==
    [][/\ \A r \in DOMAIN roleRequests :
             roleRequests'[r].status # roleRequests[r].status
             => roleRequests[r].status = "pending_super_admin_approval"
       /\ \A u \in Users :
             customClaims'[u] # customClaims[u]
             => \E r \in DOMAIN roleRequests :
                   /\ roleRequests[r].targetUid = u
                   /\ roleRequests[r].status = "pending_super_admin_approval"
                   /\ roleRequests'[r].status = "approved"]_vars
\* The permission tags of a permissions array.
PermissionSet(permissions) == {permissions[i] : i \in DOMAIN permissions}

\* C30: a setAdminRole or approveRoleAssignment step that sets a user's
\* claims leaves a role of AdminRole and the ROLE_PERMISSIONS entry of that
\* role; ROLE_PERMISSIONS and getRolePermissions give the same set for every
\* role, and viewer's set is within manager's, manager's within admin's,
\* admin's within super_admin's.
C30_RoleClaimsFromTable ==
    [][/\ \A u \in Users :
             (/\ customClaims'[u] # customClaims[u]
              /\ last'.op \in {"setAdminRole", "approveRoleAssignment"})
             => /\ customClaims'[u].role \in AdminRole
                /\ customClaims'[u].permissions = ROLE_PERMISSIONS[customClaims'[u].role]
       /\ \A role \in AdminRole :
             PermissionSet(ROLE_PERMISSIONS[role]) = PermissionSet(getRolePermissions(role))
       /\ PermissionSet(ROLE_PERMISSIONS["viewer"]) \subseteq PermissionSet(ROLE_PERMISSIONS["manager"])
       /\ PermissionSet(ROLE_PERMISSIONS["manager"]) \subseteq PermissionSet(ROLE_PERMISSIONS["admin"])
       /\ PermissionSet(ROLE_PERMISSIONS["admin"]) \subseteq
             PermissionSet(ROLE_PERMISSIONS["super_admin"])]_vars
====
